---- MODULE Spec2Model ----
(***************************************************************************)
(* Session bridge of the voice server: VoiceAIWebSocketServer              *)
(* (websocket_server.py), ConnectionManager (main_integrated.py) and       *)
(* GeminiLiveClient (gemini_live_client.py), with the broadcast request    *)
(* of main.py and main_integrated.py.                                      *)
(*                                                                         *)
(* The program runs on one asyncio event loop, so a step of the model is   *)
(* the code a task runs between two suspension points (an await that       *)
(* really waits: the remote session's open, send, close and receive, and   *)
(* the client channel's receive).  A write to the client channel is done   *)
(* at the call of websocket.send, before it may wait for the buffer to     *)
(* drain.                                                                  *)
(*                                                                         *)
(* `sent` and `calls` are the outputs of the last step: the frames written *)
(* to client channels and the calls made on adapters and remote sessions.  *)
(***************************************************************************)
EXTENDS Integers, Sequences, FiniteSets, TLC

\* ------------------------------------------------------------- bounds
NConns == 2
MaxAudioLen == 3

Conns == 1..NConns

\* ------------------------------------------------------------- base64
\* A byte string is a sequence of bytes; a base64 text is a sequence of
\* symbols 0..63 (the alphabet, by index) and Pad (the character '=').
Pad == 64

\* The audio payloads the clients send: the prefixes of one sample.
Sample == << 77, 0, 255, 18, 131, 64 >>

RECURSIVE b64encode(_)
b64encode(bs) ==
    IF Len(bs) = 0 THEN <<>>
    ELSE IF Len(bs) = 1 THEN
        << bs[1] \div 4, (bs[1] % 4) * 16, Pad, Pad >>
    ELSE IF Len(bs) = 2 THEN
        << bs[1] \div 4, (bs[1] % 4) * 16 + (bs[2] \div 16), (bs[2] % 16) * 4, Pad >>
    ELSE
        << bs[1] \div 4, (bs[1] % 4) * 16 + (bs[2] \div 16),
           (bs[2] % 16) * 4 + (bs[3] \div 64), bs[3] % 64 >>
        \o b64encode(SubSeq(bs, 4, Len(bs)))

\* base64.b64decode(s) without validation, on texts made of alphabet symbols
\* and padding: ok = FALSE stands for binascii.Error.
RECURSIVE b64decode(_)
b64decode(s) ==
    IF Len(s) = 0 THEN [ok |-> TRUE, bytes |-> <<>>]
    ELSE IF Len(s) < 4 \/ s[1] = Pad \/ s[2] = Pad THEN [ok |-> FALSE, bytes |-> <<>>]
    ELSE IF s[3] = Pad THEN
        IF s[4] = Pad /\ Len(s) = 4
        THEN [ok |-> TRUE, bytes |-> << s[1] * 4 + (s[2] \div 16) >>]
        ELSE [ok |-> FALSE, bytes |-> <<>>]
    ELSE IF s[4] = Pad THEN
        IF Len(s) = 4
        THEN [ok |-> TRUE,
              bytes |-> << s[1] * 4 + (s[2] \div 16), (s[2] % 16) * 16 + (s[3] \div 4) >>]
        ELSE [ok |-> FALSE, bytes |-> <<>>]
    ELSE LET rest == b64decode(SubSeq(s, 5, Len(s)))
         IN  [ok |-> rest.ok,
              bytes |-> IF rest.ok
                        THEN << s[1] * 4 + (s[2] \div 16),
                                (s[2] % 16) * 16 + (s[3] \div 4),
                                (s[3] % 4) * 64 + s[4] >> \o rest.bytes
                        ELSE <<>>]

\* ------------------------------------------------------------- state
VARIABLES
    impl,                \* which bridge runs: "ws" (VoiceAIWebSocketServer) or
                         \* "integrated" (ConnectionManager)
    active_connections,  \* VoiceAIWebSocketServer.active_connections: a set
    clients,             \* VoiceAIWebSocketServer.clients: websocket -> adapter
    connections,         \* main_integrated.active_connections: websocket -> adapter
    gem,                 \* the GeminiLiveClient objects, by adapter id
    lis,                 \* the _listen_for_messages task of each adapter
    pending,             \* frames of the response being handled, not yet passed on
    pc,                  \* position of each connection's handler task
    chan,                \* the client channel of each connection
    sent,                \* frames written to client channels by the last step
    calls,               \* adapter and remote-session calls of the last step
    bcast,               \* the broadcast_message request in progress
    shutdown,            \* the shutdown loop of main_integrated.lifespan
    torn                 \* adapters whose session.__aexit__ has been called

vars == << impl, active_connections, clients, connections, gem, lis, pending,
           pc, chan, sent, calls, bcast, shutdown, torn >>

Adapters == Conns

\* GeminiLiveClient(api_key): a fresh object per connection.
NewClient(c) == c

\* lambda msg: self.send_to_client(websocket, msg): the sink of connection c
\* is bound to c's own channel.
\* Fault: the callback is bound to another connection's channel.
NextCallback(c) == (c % NConns) + 1
MessageCallback(c) == c

InitClient == [session |-> "None", is_connected |-> FALSE, message_callback |-> 0]

\* The registry table the handlers look the adapter up in.
Table == IF impl = "ws" THEN clients ELSE connections

\* `websocket in self.active_connections` (a set in websocket_server.py, the
\* dict in main_integrated.py).
Registered(c) ==
    IF impl = "ws" THEN c \in active_connections ELSE c \in DOMAIN connections

\* ------------------------------------------------------------- frames
\* The application is running: lifespan has not reached its shutdown part.
NoShutdown == [phase |-> "idle", seen |-> {}, size |-> 0, cur |-> 0]

\* No broadcast_message request is running.
NoBroadcast ==
    [phase |-> "idle", start |-> {}, seen |-> {}, size |-> 0, sent_count |-> 0,
     delivered |-> 0]

DefaultMime == "audio/pcm;rate=16000"
OtherMime == "audio/webm"
Absent == << -1 >>
AudioInputs == {SubSeq(Sample, 1, n) : n \in 0..MaxAudioLen}
BadBase64 == << 0, 0 >>

NoFrame == [json |-> FALSE, type |-> "None", data |-> Absent,
            mime_type |-> "None", text |-> "None"]

ClientFrames ==
    {NoFrame}
    \cup {[NoFrame EXCEPT !.json = TRUE, !.type = t] :
            t \in {"user_speaking_started", "user_speaking_stopped", "ping",
                   "bogus", "None"}}
    \cup {[NoFrame EXCEPT !.json = TRUE, !.type = "audio_data", !.data = d,
                          !.mime_type = m] :
            d \in {Absent, BadBase64} \cup {b64encode(x) : x \in AudioInputs},
            m \in {"None", OtherMime}}
    \cup {[NoFrame EXCEPT !.json = TRUE, !.type = "text_message", !.text = t] :
            t \in {"None", "", "hello"}}

Frame(type, message) == [type |-> type, message |-> message]

\* send_to_client(websocket, message): the frame is written when the
\* connection is registered and its channel open; a closed channel raises
\* ConnectionClosed, which is caught and logged.  src is the adapter whose
\* response the frame was made from (0: made by the bridge itself).
\* Fault: the frame is written whatever the registry and the channel say.
SendUnguarded(c, f, src) ==
    << [to |-> c, type |-> f.type, message |-> f.message, src |-> src] >>
SendToClient(c, f, src) ==
    IF c \in Conns /\ Registered(c) /\ chan[c] = "open"
    THEN << [to |-> c, type |-> f.type, message |-> f.message, src |-> src] >>
    ELSE << >>

Call(a, op, data, arg) == [adapter |-> a, op |-> op, data |-> data, arg |-> arg]

\* `not self.session or not self.is_connected` is false
SessionActive(a) == gem[a].session # "None" /\ gem[a].is_connected

Init ==
    /\ impl \in {"ws", "integrated"}
    /\ active_connections = {}
    /\ clients = << >>
    /\ connections = << >>
    /\ gem = [a \in Adapters |-> InitClient]
    /\ lis = [a \in Adapters |-> "none"]
    /\ pending = [a \in Adapters |-> << >>]
    /\ pc = [c \in Conns |-> "start"]
    /\ chan = [c \in Conns |-> "open"]
    /\ sent = << >>
    /\ calls = << >>
    /\ bcast = NoBroadcast
    /\ shutdown = NoShutdown
    /\ torn = {}

\* ------------------------------------------------------------- registry
Put(t, c, a) == [x \in DOMAIN t \cup {c} |-> IF x = c THEN a ELSE t[x]]
\* Faults: the whole table is cleared; the entry is left in the table.
ClearTable(t, c) == << >>
KeepEntry(t, c) == t
Del(t, c) == [x \in DOMAIN t \ {c} |-> t[x]]

\* Assign the table the running bridge uses; the other bridge's is untouched.
SetTable(t) ==
    IF impl = "ws"
    THEN clients' = t /\ UNCHANGED connections
    ELSE connections' = t /\ UNCHANGED clients

\* ------------------------------------------------------------- connect
\* handle_client with the GeminiLiveClient constructor raising (genai.Client
\* rejects the key or is missing): register_client is called outside the try
\* of handle_client, so the handler ends without unregister_client, and the
\* transport closes the channel.  In websocket_server.py the websocket was
\* added to active_connections before the constructor ran; in
\* main_integrated.py the dict entry is only made after it.
register_crash(c) ==
    /\ pc[c] = "start"
    /\ chan[c] = "open"
    /\ active_connections' =
          IF impl = "ws" THEN active_connections \cup {c} ELSE active_connections
    /\ pc' = [pc EXCEPT ![c] = "crashed"]
    /\ chan' = [chan EXCEPT ![c] = "closed"]
    /\ sent' = << >>
    /\ calls' = << >>
    /\ UNCHANGED << impl, shutdown, torn, bcast, clients, connections, gem, lis, pending >>

\* handle_client / websocket_endpoint up to the first suspension:
\* register_client adds the websocket to the registry, creates the adapter
\* and calls GeminiLiveClient.connect, which stores the callback and the
\* session object and waits in session.__aenter__().
register_client(c) ==
    /\ pc[c] = "start"
    /\ chan[c] = "open"
    /\ LET a == NewClient(c) IN
        /\ active_connections' =
              IF impl = "ws" THEN active_connections \cup {c} ELSE active_connections
        /\ SetTable(Put(Table, c, a))
        /\ gem' = [gem EXCEPT ![a] = [session |-> "cm", is_connected |-> FALSE,
                                      message_callback |-> MessageCallback(c)]]
        /\ calls' = << Call(a, "__aenter__", << >>, "") >>
    /\ pc' = [pc EXCEPT ![c] = "connect"]
    /\ sent' = << >>
    /\ UNCHANGED << impl, shutdown, torn, bcast, lis, pending, chan >>

\* session.__aenter__() returns (ok) or raises.  On success connect sets
\* is_connected, creates the listener task and returns True, and
\* register_client sends connection_established; on failure it sends error.
\* Either way the handler goes on to its receive loop.
\* Fault: register_client does not announce the result of the open.
connect_unannounced(c, ok) ==
    /\ pc[c] = "connect"
    /\ LET a == Table[c] IN
        IF ok
        THEN /\ gem' = [gem EXCEPT ![a].session = "open", ![a].is_connected = TRUE]
             /\ lis' = [lis EXCEPT ![a] = "wait"]
        ELSE UNCHANGED << gem, lis >>
    /\ sent' = << >>
    /\ pc' = [pc EXCEPT ![c] = "loop"]
    /\ calls' = << >>
    /\ UNCHANGED << impl, shutdown, torn, bcast, active_connections, clients,
                    connections, pending, chan >>
connect(c, ok) ==
    /\ pc[c] = "connect"
    /\ LET a == Table[c] IN
        IF ok
        THEN /\ gem' = [gem EXCEPT ![a].session = "open", ![a].is_connected = TRUE]
             /\ lis' = [lis EXCEPT ![a] = "wait"]
             /\ sent' = SendToClient(c, Frame("connection_established", "connect_ok"), 0)
        ELSE /\ sent' = SendToClient(c, Frame("error", "connect_failed"), 0)
             /\ UNCHANGED << gem, lis >>
    /\ pc' = [pc EXCEPT ![c] = "loop"]
    /\ calls' = << >>
    /\ UNCHANGED << impl, shutdown, torn, bcast, active_connections, clients, connections, pending, chan >>

\* ------------------------------------------------------------- frames in
\* Fault: the reply is never written.
DropReply(c, f) == [sent |-> << >>, calls |-> << >>, next |-> "loop"]
Reply(c, f) == [sent |-> SendToClient(c, f, 0), calls |-> << >>, next |-> "loop"]
Nothing == [sent |-> << >>, calls |-> << >>, next |-> "loop"]

\* The error branches of the handler: one error frame to the sender.
\* Fault: the frame is dropped without an answer.
Ignored(c, why) == Nothing
Rejected(c, why) == Reply(c, Frame("error", why))

Truthy(d) == d # Absent /\ d # << >>

\* GeminiLiveClient.send_audio / send_text, called from the handler for
\* connection c: a refusal when the session is not active (the handler then
\* sends the error frame), otherwise the remote call, in which the handler
\* waits.
send_audio(c, a, data, mime) ==
    IF SessionActive(a)
    THEN [sent  |-> << >>,
          calls |-> << Call(a, "send_audio", data, mime),
                       Call(a, "send_realtime_input", data, mime) >>,
          next  |-> "send_audio"]
    ELSE [sent  |-> SendToClient(c, Frame("error", "audio_send"), 0),
          calls |-> << Call(a, "send_audio", data, mime) >>,
          next  |-> "loop"]

send_text(c, a, text) ==
    IF SessionActive(a)
    THEN [sent  |-> << >>,
          calls |-> << Call(a, "send_text", << >>, text),
                       Call(a, "send_client_content", << >>, text) >>,
          next  |-> "send_text"]
    ELSE [sent  |-> SendToClient(c, Frame("error", "text_send"), 0),
          calls |-> << Call(a, "send_text", << >>, text) >>,
          next  |-> "loop"]

\* The adapter the handler of connection c uses: self.clients[websocket].
\* Fault: one adapter serves every connection.
SharedClient(c) == Table[CHOOSE x \in DOMAIN Table : \A y \in DOMAIN Table : x <= y]
Lookup(c) == Table[c]

\* handle_client_message / handle_message for one received frame m.
Dispatch(c, m) ==
    IF ~m.json THEN Rejected(c, "bad_json")
    ELSE IF c \notin DOMAIN Table THEN Rejected(c, "no_session")
    ELSE IF m.type = "audio_data" THEN
        IF Truthy(m.data)
        THEN LET d == b64decode(m.data) IN
             IF d.ok
             THEN send_audio(c, Lookup(c), d.bytes,
                             IF m.mime_type = "None" THEN DefaultMime ELSE m.mime_type)
             ELSE Rejected(c, "audio_decode")
        ELSE Nothing
    ELSE IF m.type = "text_message" THEN
        IF m.text # "None" /\ m.text # ""
        THEN send_text(c, Lookup(c), m.text)
        ELSE Nothing
    ELSE IF m.type = "user_speaking_started"
        THEN Reply(c, Frame("user_speaking_acknowledged", ""))
    ELSE IF m.type = "user_speaking_stopped"
        THEN Reply(c, Frame("user_speaking_ended_acknowledged", ""))
    ELSE IF m.type = "ping" THEN Reply(c, Frame("pong", ""))
    ELSE Rejected(c, "unknown_type")

\* ConnectionManager.handle_message of main_integrated.py for one received
\* frame m; active_connections there is the dict (Table).
\* Fault: the ping branch is missing.
handle_message_no_ping(c, m) ==
    IF m.json /\ c \in DOMAIN Table /\ m.type = "ping"
    THEN Rejected(c, "unknown_type")
    ELSE Dispatch(c, m)
handle_message(c, m) ==
    IF m.json
    THEN IF c \notin DOMAIN Table
         THEN Reply(c, Frame("error", "no_session"))
         ELSE LET gemini_client == Lookup(c) IN
              CASE m.type = "audio_data" ->
                     LET mime_type == IF m.mime_type = "None"
                                      THEN "audio/pcm;rate=16000" ELSE m.mime_type
                     IN  IF Truthy(m.data)
                         THEN IF b64decode(m.data).ok
                              THEN send_audio(c, gemini_client,
                                              b64decode(m.data).bytes, mime_type)
                              ELSE Reply(c, Frame("error", "audio_decode"))
                         ELSE Nothing
                [] m.type = "text_message" ->
                     IF m.text \notin {"None", ""}
                     THEN send_text(c, gemini_client, m.text)
                     ELSE Nothing
                [] m.type = "user_speaking_started" ->
                     Reply(c, Frame("user_speaking_acknowledged", ""))
                [] m.type = "user_speaking_stopped" ->
                     Reply(c, Frame("user_speaking_ended_acknowledged", ""))
                [] m.type = "ping" -> Reply(c, Frame("pong", ""))
                [] OTHER -> Reply(c, Frame("error", "unknown_type"))
    ELSE Reply(c, Frame("error", "bad_json"))

\* The handler after `success = await gemini_client.send_audio / send_text`
\* has returned, in websocket_server.py and in main_integrated.py.
after_send(c, ok) ==
    IF ok THEN << >>
    ELSE SendToClient(c, Frame("error",
            IF pc[c] = "send_audio" THEN "audio_send" ELSE "text_send"), 0)
after_send_integrated(c, ok) ==
    IF ~ok /\ pc[c] = "send_audio"
    THEN SendToClient(c, Frame("error", "audio_send"), 0)
    ELSE IF ~ok /\ pc[c] = "send_text"
    THEN SendToClient(c, Frame("error", "text_send"), 0)
    ELSE << >>

handle_client_message(c, m) ==
    /\ pc[c] = "loop"
    /\ chan[c] = "open"
    /\ LET r == IF impl = "ws" THEN Dispatch(c, m) ELSE handle_message(c, m) IN
        /\ sent' = r.sent
        /\ calls' = r.calls
        /\ pc' = [pc EXCEPT ![c] = r.next]
    /\ UNCHANGED << impl, shutdown, torn, bcast, active_connections, clients, connections, gem, lis,
                    pending, chan >>

\* The remote call of send_audio / send_text returns (ok) or raises; a raise
\* makes the adapter return False and the handler send the error frame.
\* Fault: the result of the adapter call is not looked at.
send_done_unchecked(c, ok) ==
    /\ pc[c] \in {"send_audio", "send_text"}
    /\ sent' = << >>
    /\ calls' = << >>
    /\ pc' = [pc EXCEPT ![c] = "loop"]
    /\ UNCHANGED << impl, shutdown, torn, bcast, active_connections, clients, connections, gem, lis,
                    pending, chan >>
send_done(c, ok) ==
    /\ pc[c] \in {"send_audio", "send_text"}
    /\ sent' = IF impl = "ws" THEN after_send(c, ok) ELSE after_send_integrated(c, ok)
    /\ calls' = << >>
    /\ pc' = [pc EXCEPT ![c] = "loop"]
    /\ UNCHANGED << impl, shutdown, torn, bcast, active_connections, clients, connections, gem, lis,
                    pending, chan >>

\* The client closes its channel (or the transport's liveness probe fails).
client_close(c) ==
    /\ pc[c] \in {"connect", "loop", "send_audio", "send_text"}
    /\ chan[c] = "open"
    /\ chan' = [chan EXCEPT ![c] = "closed"]
    /\ sent' = << >>
    /\ calls' = << >>
    /\ UNCHANGED << impl, shutdown, torn, bcast, active_connections, clients, connections, gem, lis,
                    pending, pc >>

\* ------------------------------------------------------------- close
\* GeminiLiveClient.disconnect up to its suspension: is_connected is cleared,
\* and a session that is set is torn down with __aexit__.
\* Fault: only the flag is cleared, and the session is left as it is.
FlagOnly(a) ==
    [gem   |-> [gem EXCEPT ![a].is_connected = FALSE],
     calls |-> << Call(a, "disconnect", << >>, "") >>,
     waits |-> FALSE]
\* Fault: the session is torn down without the `if self.session` test.
TeardownAlways(a) ==
    [gem   |-> [gem EXCEPT ![a].is_connected = FALSE],
     calls |-> << Call(a, "disconnect", << >>, ""), Call(a, "__aexit__", << >>, "") >>,
     waits |-> TRUE]
Disconnect(a) ==
    [gem   |-> [gem EXCEPT ![a].is_connected = FALSE],
     calls |-> IF gem[a].session # "None"
               THEN << Call(a, "disconnect", << >>, ""), Call(a, "__aexit__", << >>, "") >>
               ELSE << Call(a, "disconnect", << >>, "") >>,
     waits |-> gem[a].session # "None"]

\* unregister_client / ConnectionManager.disconnect up to its suspension.
\* Fault: the adapter is neither disconnected nor taken out of the table.
DiscardOnly(c) ==
    /\ active_connections' = active_connections \ {c}
    /\ pc' = [pc EXCEPT ![c] = "done"]
    /\ sent' = << >>
    /\ calls' = << >>
    /\ UNCHANGED << impl, shutdown, torn, bcast, clients, connections, gem, lis, pending, chan >>
Unregister(c) ==
    /\ active_connections' = active_connections \ {c}
    /\ IF c \in DOMAIN Table
       THEN LET d == Disconnect(Table[c]) IN
            /\ gem' = d.gem
            /\ calls' = d.calls
            /\ torn' = IF d.waits THEN torn \cup {Table[c]} ELSE torn
            /\ IF d.waits
               THEN pc' = [pc EXCEPT ![c] = "aexit"] /\ UNCHANGED << clients, connections >>
               ELSE pc' = [pc EXCEPT ![c] = "done"] /\ SetTable(Del(Table, c))
       ELSE /\ calls' = << >>
            /\ pc' = [pc EXCEPT ![c] = "done"]
            /\ UNCHANGED << gem, clients, connections, torn >>
    /\ sent' = << >>
    /\ UNCHANGED << impl, shutdown, bcast, lis, pending, chan >>

\* The finally clause of handle_client / websocket_endpoint: the receive loop
\* ended because the channel is closed.
unregister_client(c) ==
    /\ pc[c] = "loop"
    /\ chan[c] = "closed"
    /\ Unregister(c)

\* session.__aexit__ returned: disconnect clears the session, and the
\* connection's entry is deleted from the table.
unregister_done(c) ==
    /\ pc[c] = "aexit"
    /\ gem' = [gem EXCEPT ![Table[c]].session = "None"]
    /\ SetTable(Del(Table, c))
    /\ pc' = [pc EXCEPT ![c] = "done"]
    /\ sent' = << >>
    /\ calls' = << >>
    /\ UNCHANGED << impl, shutdown, torn, bcast, active_connections, lis, pending, chan >>

\* The host calls unregister_client / ConnectionManager.disconnect once more
\* for a connection whose close has completed.
close_again(c) ==
    /\ pc[c] = "done"
    /\ Unregister(c)

\* GeminiLiveClient.disconnect called once more on the adapter of a connection
\* whose close has completed.
disconnect_again(a) ==
    /\ pc[a] = "done"
    /\ LET d == Disconnect(a) IN
        /\ gem' = [d.gem EXCEPT ![a].session = "None"]
        /\ calls' = d.calls
        /\ torn' = IF d.waits THEN torn \cup {a} ELSE torn
    /\ sent' = << >>
    /\ UNCHANGED << impl, shutdown, bcast, active_connections, clients, connections, lis, pending,
                    pc, chan >>

\* ------------------------------------------------------------- listener
Facets == {"data", "turn_complete", "interrupted", "usage_metadata"}

\* _handle_gemini_response: the frames of one response, in the order of the
\* four checks.
\* Fault: the turn-complete check is made before the audio check.
TurnFirstFrames(F) ==
    (IF "turn_complete" \in F THEN << "ai_stopped_speaking" >> ELSE << >>)
    \o (IF "data" \in F THEN << "audio_data" >> ELSE << >>)
    \o (IF "interrupted" \in F THEN << "generation_interrupted" >> ELSE << >>)
    \o (IF "usage_metadata" \in F THEN << "usage_metadata" >> ELSE << >>)
ResponseFrames(F) ==
    (IF "data" \in F THEN << "audio_data" >> ELSE << >>)
    \o (IF "turn_complete" \in F THEN << "ai_stopped_speaking" >> ELSE << >>)
    \o (IF "interrupted" \in F THEN << "generation_interrupted" >> ELSE << >>)
    \o (IF "usage_metadata" \in F THEN << "usage_metadata" >> ELSE << >>)

\* GeminiLiveClient._send_to_client: through the callback, when one is set.
ToSink(a, type) ==
    IF gem[a].message_callback # 0
    THEN SendToClient(gem[a].message_callback, Frame(type, ""), a)
    ELSE << >>

\* The response loop may take the next response: the previous one is done.
CanReceive(a) == lis[a] = "wait" /\ pending[a] = << >>

\* _listen_for_messages receives a response with the facets F and
\* _handle_gemini_response runs up to its first send.
recv_response(a, F) ==
    /\ CanReceive(a)
    /\ gem[a].session = "open"
    /\ LET fs == ResponseFrames(F) IN
        IF fs = << >>
        THEN sent' = << >> /\ pending' = [pending EXCEPT ![a] = << >>]
        ELSE sent' = ToSink(a, Head(fs)) /\ pending' = [pending EXCEPT ![a] = Tail(fs)]
    /\ calls' = << >>
    /\ UNCHANGED << impl, shutdown, torn, bcast, active_connections, clients, connections, gem, lis, pc, chan >>

\* _handle_gemini_response resumes after a send and makes the next one.
deliver(a) ==
    /\ lis[a] = "wait"
    /\ pending[a] # << >>
    /\ sent' = ToSink(a, Head(pending[a]))
    /\ pending' = [pending EXCEPT ![a] = Tail(pending[a])]
    /\ calls' = << >>
    /\ UNCHANGED << impl, shutdown, torn, bcast, active_connections, clients, connections, gem, lis, pc, chan >>

\* session.receive() is exhausted: the task returns.
recv_end(a) ==
    /\ lis[a] = "wait"
    /\ pending[a] = << >>
    /\ lis' = [lis EXCEPT ![a] = "ended"]
    /\ sent' = << >>
    /\ calls' = << >>
    /\ UNCHANGED << impl, shutdown, torn, bcast, active_connections, clients, connections, gem, pending, pc, chan >>

\* session.receive() raises: the except clause clears is_connected.
\* Fault: is_connected is one flag that all adapters share.
recv_error_shared(a) ==
    /\ lis[a] = "wait"
    /\ pending[a] = << >>
    /\ lis' = [lis EXCEPT ![a] = "error"]
    /\ gem' = [x \in Adapters |-> [gem[x] EXCEPT !.is_connected = FALSE]]
    /\ sent' = << >>
    /\ calls' = << >>
    /\ UNCHANGED << impl, shutdown, torn, bcast, active_connections, clients, connections, pending, pc, chan >>
recv_error(a) ==
    /\ lis[a] = "wait"
    /\ pending[a] = << >>
    /\ lis' = [lis EXCEPT ![a] = "error"]
    /\ gem' = [gem EXCEPT ![a].is_connected = FALSE]
    /\ sent' = << >>
    /\ calls' = << >>
    /\ UNCHANGED << impl, shutdown, torn, bcast, active_connections, clients, connections, pending, pc, chan >>

\* ------------------------------------------------------------- stats
\* GET /stats of main.py: the sizes of the two collections of the server.
get_stats ==
    [active_connections |-> Cardinality(active_connections),
     total_clients      |-> Cardinality(DOMAIN clients)]

\* ------------------------------------------------------------- broadcast
\* What broadcast_message iterates over: the server's active_connections set
\* itself (main.py), the keys view of the dict itself (main_integrated.py).
BroadcastKeys == IF impl = "ws" THEN active_connections ELSE DOMAIN connections

\* The for statement asks the iterator for the next websocket.  The iterator
\* of a set or of a dict view raises RuntimeError when the size of the
\* collection is not the one it had when the iteration began, and the
\* exception leaves broadcast_message (the try is inside the loop body).
\* Otherwise the loop body runs up to the suspension in send_to_client, which
\* writes the frame when the websocket is registered and its channel is open
\* and swallows the failure otherwise.  start and delivered record what the
\* request has seen and done; the code keeps only sent_count.
BroadcastAdvance(b) ==
    IF Cardinality(BroadcastKeys) # b.size
    THEN /\ bcast' = [b EXCEPT !.phase = "crashed"]
         /\ sent' = << >>
    ELSE IF BroadcastKeys \ b.seen = {}
    THEN /\ bcast' = [b EXCEPT !.phase = "done"]
         /\ sent' = << >>
    ELSE \E w \in BroadcastKeys \ b.seen :
            LET f == SendToClient(w, Frame("broadcast", ""), 0) IN
            /\ sent' = f
            /\ bcast' = [b EXCEPT !.phase = "send", !.seen = @ \cup {w},
                                  !.delivered = @ + Len(f)]

\* POST /broadcast: a request arrives (none is in progress), sent_count is 0
\* and the iteration begins.
broadcast_message ==
    /\ bcast.phase # "send"
    /\ BroadcastAdvance([NoBroadcast EXCEPT !.start = BroadcastKeys,
                                            !.size = Cardinality(BroadcastKeys)])
    /\ calls' = << >>
    /\ UNCHANGED << impl, shutdown, torn, active_connections, clients, connections,
                    gem, lis, pending, pc, chan >>

\* send_to_client has returned: sent_count += 1, and the loop goes on.
broadcast_resume ==
    /\ bcast.phase = "send"
    /\ BroadcastAdvance([bcast EXCEPT !.sent_count = @ + 1])
    /\ calls' = << >>
    /\ UNCHANGED << impl, shutdown, torn, active_connections, clients, connections,
                    gem, lis, pending, pc, chan >>

\* ------------------------------------------------------------- shutdown
\* The shutdown part of main_integrated.lifespan:
\*   for websocket, gemini_client in active_connections.items():
\*       await gemini_client.disconnect()
\* The for statement asks the dict iterator for the next item; the iterator
\* raises RuntimeError when the dict has changed size, and the for statement
\* is outside the try.  Otherwise GeminiLiveClient.disconnect runs up to its
\* suspension in session.__aexit__.  The handler tasks go on running.
ShutdownAdvance(b, g) ==
    IF Cardinality(DOMAIN connections) # b.size
    THEN /\ shutdown' = [b EXCEPT !.phase = "crashed", !.cur = 0]
         /\ gem' = g
         /\ calls' = << >>
         /\ UNCHANGED torn
    ELSE IF DOMAIN connections \ b.seen = {}
    THEN /\ shutdown' = [b EXCEPT !.phase = "done", !.cur = 0]
         /\ gem' = g
         /\ calls' = << >>
         /\ UNCHANGED torn
    ELSE \E w \in DOMAIN connections \ b.seen :
            LET a == connections[w]
                d == Disconnect(a)
            IN  /\ gem' = [g EXCEPT ![a] =
                              IF d.waits THEN d.gem[a]
                              ELSE [d.gem[a] EXCEPT !.session = "None"]]
                /\ calls' = d.calls
                /\ torn' = IF d.waits THEN torn \cup {a} ELSE torn
                /\ shutdown' = [b EXCEPT !.phase = "aexit", !.seen = @ \cup {w},
                                         !.cur = IF d.waits THEN a ELSE 0]

\* The application is told to stop: lifespan resumes after its yield and the
\* loop begins.
lifespan_shutdown ==
    /\ impl = "integrated"
    /\ shutdown.phase = "idle"
    /\ ShutdownAdvance([NoShutdown EXCEPT !.size = Cardinality(DOMAIN connections)],
                       gem)
    /\ sent' = << >>
    /\ UNCHANGED << impl, bcast, active_connections, clients, connections, lis,
                    pending, pc, chan >>

\* disconnect resumes after session.__aexit__ (when it waited there), clears
\* the session and returns, and the loop goes on with another adapter.
shutdown_resume ==
    /\ shutdown.phase = "aexit"
    /\ ShutdownAdvance(shutdown,
                       IF shutdown.cur = 0 THEN gem
                       ELSE [gem EXCEPT ![shutdown.cur].session = "None"])
    /\ sent' = << >>
    /\ UNCHANGED << impl, bcast, active_connections, clients, connections, lis,
                    pending, pc, chan >>

\* ------------------------------------------------------------- spec
Next ==
    \/ \E c \in Conns : register_client(c)
    \/ \E c \in Conns : register_crash(c)
    \/ \E c \in Conns, ok \in BOOLEAN : connect(c, ok)
    \/ \E c \in Conns, m \in ClientFrames : handle_client_message(c, m)
    \/ \E c \in Conns, ok \in BOOLEAN : send_done(c, ok)
    \/ \E c \in Conns : client_close(c)
    \/ \E c \in Conns : unregister_client(c)
    \/ \E c \in Conns : unregister_done(c)
    \/ \E c \in Conns : close_again(c)
    \/ \E a \in Adapters : disconnect_again(a)
    \/ \E a \in Adapters, F \in SUBSET Facets : recv_response(a, F)
    \/ \E a \in Adapters : deliver(a)
    \/ \E a \in Adapters : recv_end(a)
    \/ \E a \in Adapters : recv_error(a)

Spec == Init /\ [][Next]_vars

\* The event loop runs every task that is ready, and the remote session
\* answers every call: the handler task of a connection is resumed after
\* connect, after a remote send, when its channel is closed, and after
\* __aexit__.  What clients send and when they close is free.
HandlerStep(c) ==
    \/ \E ok \in BOOLEAN : connect(c, ok)
    \/ \E ok \in BOOLEAN : send_done(c, ok)
    \/ unregister_client(c)
    \/ unregister_done(c)

\* The listener task is resumed after each send of a response it is handling,
\* and session.receive() of a session that __aexit__ has closed ends or
\* raises.  What an open session sends, and when it ends, is free.
ListenerStep(a) ==
    \/ deliver(a)
    \/ gem[a].session = "None" /\ (recv_end(a) \/ recv_error(a))

FairSpec ==
    Spec /\ \A c \in Conns : WF_vars(HandlerStep(c)) /\ WF_vars(ListenerStep(c))

\* The registry and the channels under connects, closes, remote responses
\* and broadcast requests: what broadcast_message reads and writes, and every
\* task that writes to a client channel without being asked by the client.
\* Client frames touch neither the registry nor the channel state.
BroadcastNext ==
    \/ \E c \in Conns : register_client(c)
    \/ \E c \in Conns : register_crash(c)
    \/ \E c \in Conns, ok \in BOOLEAN : connect(c, ok)
    \/ \E c \in Conns : client_close(c)
    \/ \E c \in Conns : unregister_client(c)
    \/ \E c \in Conns : unregister_done(c)
    \/ broadcast_message
    \/ broadcast_resume
    \/ \E a \in Adapters, F \in SUBSET Facets : recv_response(a, F)
    \/ \E a \in Adapters : deliver(a)
    \/ \E a \in Adapters : recv_end(a)
    \/ \E a \in Adapters : recv_error(a)

BroadcastSpec == Init /\ [][BroadcastNext]_vars

\* The registry, the channels and the adapters under connects, closes and
\* the application's shutdown: what the shutdown loop reads and writes.
ShutdownNext ==
    \/ \E c \in Conns : register_client(c)
    \/ \E c \in Conns : register_crash(c)
    \/ \E c \in Conns, ok \in BOOLEAN : connect(c, ok)
    \/ \E c \in Conns : client_close(c)
    \/ \E c \in Conns : unregister_client(c)
    \/ \E c \in Conns : unregister_done(c)
    \/ \E c \in Conns : close_again(c)
    \/ \E a \in Adapters : disconnect_again(a)
    \/ lifespan_shutdown
    \/ shutdown_resume

ShutdownSpec == Init /\ [][ShutdownNext]_vars

TypeOK ==
    /\ impl \in {"ws", "integrated"}
    /\ active_connections \subseteq Conns
    /\ DOMAIN clients \subseteq Conns
    /\ DOMAIN connections \subseteq Conns
    /\ \A c \in Conns : pc[c] \in {"start", "connect", "loop", "send_audio",
                                   "send_text", "aexit", "done", "crashed"}
    /\ Len(sent) <= 1
    /\ Len(calls) <= 2
    /\ bcast.phase \in {"idle", "send", "done", "crashed"}
    /\ bcast.start \subseteq Conns
    /\ bcast.seen \subseteq Conns
    /\ bcast.size \in 0..NConns
    /\ bcast.sent_count \in 0..NConns
    /\ bcast.delivered \in 0..bcast.sent_count + 1
    /\ shutdown.phase \in {"idle", "aexit", "done", "crashed"}
    /\ shutdown.seen \subseteq Conns
    /\ shutdown.size \in 0..NConns
    /\ shutdown.cur \in {0} \cup Adapters
    /\ torn \subseteq Adapters

\* ------------------------------------------------------------- lifecycle
\* The connection states of the design, read off the handler's position.
Connecting(c) == pc[c] = "connect"
Opened(c) == c \in DOMAIN Table /\ gem[Table[c]].session = "open"
ConnectFailed(c) ==
    /\ pc[c] \in {"loop", "send_audio", "send_text"}
    /\ c \in DOMAIN Table
    /\ gem[Table[c]].session = "cm"
Active(c) ==
    /\ pc[c] = "loop"
    /\ chan[c] = "open"
    /\ Registered(c)
    /\ Opened(c)
Closed(c) == pc[c] = "done"
Deliverable(c) == Registered(c) /\ chan[c] = "open"

ForwardOps == {"send_realtime_input", "send_client_content"}
CallsOn(cs, a, ops) == {i \in 1..Len(cs) : cs[i].adapter = a /\ cs[i].op \in ops}
FramesTo(fs, c) == {i \in 1..Len(fs) : fs[i].to = c}

\* ------------------------------------------------------------- C1
\* C1: closing one connection removes exactly that connection's registry
\* entry and disconnects exactly that connection's adapter: when the close
\* completes the table has exactly one key less, and no step of the close
\* changes another connection's entry, adapter reference or adapter.
C1_CloseAffectsOnlyOwn ==
    [][\A c \in Conns :
        (pc[c] \in {"loop", "aexit"} /\ pc'[c] \in {"aexit", "done"} /\ pc'[c] # pc[c]) =>
            /\ \A d \in Conns \ {c} :
                /\ (d \in active_connections') = (d \in active_connections)
                /\ (d \in DOMAIN Table') = (d \in DOMAIN Table)
                /\ d \in DOMAIN Table =>
                     /\ Table'[d] = Table[d]
                     /\ gem'[Table[d]] = gem[Table[d]]
            /\ pc'[c] = "done" =>
                /\ c \in DOMAIN Table
                /\ DOMAIN Table' = DOMAIN Table \ {c}
                /\ Cardinality(DOMAIN Table') = Cardinality(DOMAIN Table) - 1
                /\ c \notin active_connections'
                /\ gem'[Table[c]].is_connected = FALSE
                /\ gem'[Table[c]].session = "None"
    ]_vars

C1_Witness ==
    \E c, d \in Conns :
        /\ c # d
        /\ Closed(c)
        /\ calls = << >>
        /\ Active(d)
        /\ gem[Table[d]].is_connected

\* ------------------------------------------------------------- C2
\* C2: when the listener task of a registered connection has ended (the
\* remote session closed or raised), the connection is eventually closed
\* and unregistered without the client disconnecting.
C2_BackendEndTearsDown ==
    \A c \in Conns :
        (c \in DOMAIN Table /\ lis[Table[c]] \in {"ended", "error"}) ~> Closed(c)

C4_FailedOpenCloses ==
    [][\A c \in Conns :
        (ConnectFailed(c) /\ pc[c] = "loop") =>
            /\ FramesTo(sent', c) = {}
            /\ pc'[c] \in {"loop", "aexit", "done"}
    ]_vars

\* ------------------------------------------------------------- C5
AudioFrame(x, m) ==
    [NoFrame EXCEPT !.json = TRUE, !.type = "audio_data", !.data = b64encode(x),
                    !.mime_type = m]

AudioCallMade(c, x, m) ==
    /\ CallsOn(calls', Table[c], {"send_audio"}) # {}
    /\ Cardinality(CallsOn(calls', Table[c], {"send_audio", "send_text"})) = 1
    /\ \A i \in CallsOn(calls', Table[c], {"send_audio"}) :
          calls'[i].data = x /\ calls'[i].arg = m
    /\ \A i \in 1..Len(calls') : calls'[i].adapter = Table[c]

\* C5 (as claimed): an audio_data frame with data = base64(X) and mime_type M
\* on an Active connection makes exactly one send_audio(X, M) call on that
\* connection's adapter and no call on any other adapter.
C5_AudioReachesOwnAdapter ==
    [][\A c \in Conns, x \in AudioInputs, m \in {DefaultMime, OtherMime} :
        (Active(c) /\ handle_client_message(c, AudioFrame(x, m))) =>
            AudioCallMade(c, x, m)
    ]_vars

\* C5 (amended): the same for a payload X that is not empty.
C5_NonEmptyAudioReachesOwnAdapter ==
    [][\A c \in Conns, x \in AudioInputs \ {<< >>}, m \in {DefaultMime, OtherMime} :
        (Active(c) /\ handle_client_message(c, AudioFrame(x, m))) =>
            AudioCallMade(c, x, m)
    ]_vars

C5_Witness ==
    \E c, d \in Conns :
        /\ c # d
        /\ pc[c] = "send_audio"
        /\ Len(calls) = 2
        /\ calls[1] = Call(Table[c], "send_audio", SubSeq(Sample, 1, 2), OtherMime)
        /\ d \in DOMAIN Table
        /\ Opened(d)

\* ------------------------------------------------------------- C6
FixedOrder ==
    << "audio_data", "ai_stopped_speaking", "generation_interrupted", "usage_metadata" >>

FacetOf(type) ==
    CASE type = "audio_data" -> "data"
      [] type = "ai_stopped_speaking" -> "turn_complete"
      [] type = "generation_interrupted" -> "interrupted"
      [] type = "usage_metadata" -> "usage_metadata"

\* The frames a response with the facets F is to yield, in the fixed order.
RECURSIVE Expected(_, _)
Expected(F, i) ==
    IF i > Len(FixedOrder) THEN << >>
    ELSE (IF FacetOf(FixedOrder[i]) \in F THEN << FixedOrder[i] >> ELSE << >>)
         \o Expected(F, i + 1)

\* The frame of type t made from a response of adapter a is handed to a's
\* sink, and is on the channel of a's connection when that connection is
\* registered and its channel open.
Handed(a, t) ==
    IF Deliverable(a)
    THEN sent' = << [to |-> a, type |-> t, message |-> "", src |-> a] >>
    ELSE sent' = << >>

\* C6: each facet present in a backend response yields exactly one frame, in
\* the order audio_data, ai_stopped_speaking, generation_interrupted,
\* usage_metadata, and while frames of a response remain to be sent the
\* listener takes no later response: the only change is the next frame.
C6_ResponseFramesInOrder ==
    [][\A a \in Adapters :
        /\ \A F \in SUBSET Facets :
             recv_response(a, F) =>
                LET e == Expected(F, 1) IN
                IF e = << >>
                THEN sent' = << >> /\ pending'[a] = << >>
                ELSE Handed(a, Head(e)) /\ pending'[a] = Tail(e)
        /\ (pending[a] # << >> /\ pending'[a] # pending[a]) =>
                /\ pending'[a] = Tail(pending[a])
                /\ Handed(a, Head(pending[a]))
    ]_vars

C6_Witness ==
    \E a \in Adapters :
        /\ sent = << [to |-> a, type |-> "ai_stopped_speaking", message |-> "", src |-> a] >>
        /\ pending[a] = << "usage_metadata" >>

\* ------------------------------------------------------------- C7
\* C7: a frame made from a backend response of connection A's adapter is
\* written to connection A's channel only.
C7_BackendFramesToOwner ==
    \A i \in 1..Len(sent) : sent[i].src # 0 => sent[i].to = sent[i].src

C7_Witness ==
    /\ Len(sent) = 1
    /\ sent[1].src # 0
    /\ \A c \in Conns : Deliverable(c) /\ Opened(c)

Ended(a) ==
    \/ lis[a] \in {"ended", "error"}
    \/ (Closed(a) /\ gem[a].session = "None")

\* C9: once an adapter is ended, send_audio and send_text forward nothing
\* to the remote session.
C9_NoForwardAfterEnd ==
    [][\A a \in Adapters :
        Ended(a) => CallsOn(calls', a, ForwardOps) = {}
    ]_vars

\* ------------------------------------------------------------- C10
PingFrame == [NoFrame EXCEPT !.json = TRUE, !.type = "ping"]

\* C10: a ping frame on an Active connection yields exactly one pong frame
\* to the same client, no backend call and no change of the connection.
C10_PingPong ==
    [][\A c \in Conns :
        (Active(c) /\ handle_client_message(c, PingFrame)) =>
            /\ sent' = << [to |-> c, type |-> "pong", message |-> "", src |-> 0] >>
            /\ calls' = << >>
            /\ UNCHANGED << active_connections, clients, connections, gem, lis,
                            pending, pc, chan >>
    ]_vars

C10_Witness ==
    \E c, d \in Conns :
        /\ c # d
        /\ Active(c)
        /\ Active(d)
        /\ sent = << [to |-> c, type |-> "pong", message |-> "", src |-> 0] >>

\* ------------------------------------------------------------- C11
AckTypes == {"pong", "user_speaking_acknowledged", "user_speaking_ended_acknowledged"}

\* The adapter open of c has not completed successfully: not begun, in
\* progress, or failed.
NotYetActive(c) == pc[c] = "start" \/ Connecting(c) \/ ConnectFailed(c)

\* C11: a client frame on a connection whose adapter open has not completed
\* successfully causes no pong or acknowledgment frame to that client and no
\* backend send on its adapter.
C11_NoDispatchBeforeActive ==
    [][\A c \in Conns :
        NotYetActive(c) =>
            /\ \A i \in FramesTo(sent', c) : sent'[i].type \notin AckTypes
            /\ CallsOn(calls', NewClient(c), ForwardOps) = {}
    ]_vars

\* ------------------------------------------------------------- C12
\* The handler of c is serving frames after a successful open (its listener
\* task was created), whatever the tables say.
Serving(c) ==
    /\ pc[c] \in {"loop", "send_audio", "send_text"}
    /\ lis[NewClient(c)] # "none"

\* C12: a connection whose unregister has completed has no entry in
\* active_connections, clients or the integrated dict, so the registry holds
\* no reference to its adapter; and every connection that is being served
\* after a successful open is registered with its own adapter in the table.
C12_ClosedClearedActiveBound ==
    \A c \in Conns :
        /\ Closed(c) =>
              /\ c \notin active_connections
              /\ c \notin DOMAIN clients
              /\ c \notin DOMAIN connections
        /\ Serving(c) =>
              /\ Registered(c)
              /\ c \in DOMAIN Table
              /\ Table[c] \in Adapters
              /\ Table[c] = NewClient(c)

C12_Witness ==
    \E c, d \in Conns :
        /\ Closed(c)
        /\ lis[NewClient(c)] # "none"
        /\ Active(d)
        /\ Serving(d)

\* ------------------------------------------------------------- C13
\* Some registry collection holds c.
InRegistry(c) ==
    c \in active_connections \/ c \in DOMAIN clients \/ c \in DOMAIN connections

\* C13: a connection that is in the registry while its client channel is
\* closed is eventually in no registry collection.
C13_EntryEventuallyRemoved ==
    \A c \in Conns : (InRegistry(c) /\ chan[c] = "closed") ~> ~InRegistry(c)

\* ------------------------------------------------------------- C14
\* C14: a broadcast iterates over the connections registered when it began:
\* connections registering or unregistering while it is suspended in a send
\* do not make the iteration raise, and when it has finished every
\* connection that was registered at its start and is still registered and
\* open has been sent to.
C14_BroadcastSnapshot ==
    /\ bcast.phase # "crashed"
    /\ bcast.phase = "done" =>
          \A c \in bcast.start : Deliverable(c) => c \in bcast.seen

\* ------------------------------------------------------------- C20
\* C20: a delivery that failed during a broadcast does not end the
\* broadcast and is not counted: when the broadcast has finished, sent_count
\* is the number of frames that were written to a channel.
C20_FailedNotCounted ==
    bcast.phase = "done" => bcast.sent_count = bcast.delivered

\* ------------------------------------------------------------- C15
KnownTypes == {"audio_data", "text_message", "user_speaking_started",
               "user_speaking_stopped", "ping"}

\* The frame is not parsable JSON, or its type is not a known one.
Malformed(m) == ~m.json \/ m.type \notin KnownTypes
MalformedFrames == {m \in ClientFrames : Malformed(m)}

\* C15: a frame that is not parsable JSON or has an unknown type, received
\* on an Active connection, is answered with exactly one error frame to the
\* same client and nothing else: no adapter or backend call, and the
\* connection stays Active and registered with the same adapter.
C15_MalformedFrameOneError ==
    [][\A c \in Conns : \A m \in MalformedFrames :
        (Active(c) /\ handle_client_message(c, m)) =>
            /\ Len(sent') = 1
            /\ sent'[1].to = c
            /\ sent'[1].type = "error"
            /\ calls' = << >>
            /\ Active(c)'
            /\ UNCHANGED << active_connections, clients, connections, gem, pc, chan >>
    ]_vars

C15_Witness ==
    \E c, d \in Conns :
        /\ c # d
        /\ Active(c)
        /\ Active(d)
        /\ sent = << [to |-> c, type |-> "error", message |-> "unknown_type", src |-> 0] >>

\* ------------------------------------------------------------- C16
\* Parsable frames of a type that needs a field, without that field.
MissingFieldFrames ==
    {m \in ClientFrames :
        /\ m.json
        /\ \/ m.type = "audio_data" /\ m.data = Absent
           \/ m.type = "text_message" /\ m.text = "None"}

\* C16: an audio_data frame without data or a text_message frame without
\* text, received on an Active connection, is answered with exactly one
\* error frame to the same client, and no adapter or backend call is made.
C16_MissingFieldOneError ==
    [][\A c \in Conns : \A m \in MissingFieldFrames :
        (Active(c) /\ handle_client_message(c, m)) =>
            /\ Len(sent') = 1
            /\ sent'[1].to = c
            /\ sent'[1].type = "error"
            /\ calls' = << >>
    ]_vars

\* ------------------------------------------------------------- C17
\* Frames the handler passes on to the adapter: audio with data that
\* decodes, text that is not empty.
ForwardFrames ==
    {m \in ClientFrames :
        /\ m.json
        /\ \/ m.type = "audio_data" /\ Truthy(m.data) /\ b64decode(m.data).ok
           \/ m.type = "text_message" /\ m.text \notin {"None", ""}}

\* This step is send_audio / send_text returning False to the handler of c:
\* at once, because the adapter is not connected, or after the remote call
\* has failed.
BackendCallFails(c) ==
    \/ send_done(c, FALSE)
    \/ /\ c \in DOMAIN Table
       /\ ~SessionActive(Lookup(c))
       /\ \E m \in ForwardFrames : handle_client_message(c, m)

\* C17: when send_audio / send_text returns failure for a frame of a
\* connection whose client is still there, exactly one error frame is
\* written to that client and the connection is not closed: it stays
\* registered with the same adapter, its channel stays open, and its handler
\* is back in the receive loop for the next frame.
C17_SendFailureOneError ==
    [][\A c \in Conns :
        (Deliverable(c) /\ BackendCallFails(c)) =>
            /\ Len(sent') = 1
            /\ sent'[1].to = c
            /\ sent'[1].type = "error"
            /\ sent'[1].message \in {"audio_send", "text_send"}
            /\ pc'[c] = "loop"
            /\ chan'[c] = "open"
            /\ c \in DOMAIN Table
            /\ UNCHANGED << active_connections, clients, connections >>
    ]_vars

C17_Witness ==
    \E c, d \in Conns :
        /\ c # d
        /\ Active(c)
        /\ Active(d)
        /\ gem[Table[c]].is_connected
        /\ sent = << [to |-> c, type |-> "error", message |-> "audio_send", src |-> 0] >>

\* ------------------------------------------------------------- C18
\* The _listen_for_messages task of adapter a has returned.
ListenerOver(a) == lis[a] \in {"ended", "error"}

UndecodableFrames ==
    MalformedFrames \cup
        {m \in ClientFrames :
            m.json /\ m.type = "audio_data" /\ Truthy(m.data) /\ ~b64decode(m.data).ok}

\* This step is an error in the bridge of connection c: a frame that cannot
\* be decoded, a failed backend send, a failed open or a failed
\* session.receive(), or a frame for c that its closed channel refuses.
BridgeError(c) ==
    \/ \E m \in UndecodableFrames : handle_client_message(c, m)
    \/ BackendCallFails(c)
    \/ connect(c, FALSE)
    \/ recv_error(NewClient(c))
    \/ chan[c] = "closed" /\ deliver(NewClient(c))

\* C19: an error in the bridge of one connection changes nothing of any
\* other connection: not its registry entries, not its adapter, listener or
\* handler, and no frame is written to it; and it adds nothing to the
\* registry and removes at most the failing connection's own entry.
C19_ErrorsAreIsolated ==
    [][\A c \in Conns :
        BridgeError(c) =>
            /\ \A d \in Conns \ {c} :
                  /\ FramesTo(sent', d) = {}
                  /\ (d \in active_connections') = (d \in active_connections)
                  /\ (d \in DOMAIN clients') = (d \in DOMAIN clients)
                  /\ (d \in DOMAIN connections') = (d \in DOMAIN connections)
                  /\ d \in DOMAIN Table => Table'[d] = Table[d]
                  /\ gem'[NewClient(d)] = gem[NewClient(d)]
                  /\ lis'[NewClient(d)] = lis[NewClient(d)]
                  /\ pending'[NewClient(d)] = pending[NewClient(d)]
                  /\ pc'[d] = pc[d]
                  /\ chan'[d] = chan[d]
            /\ active_connections' \subseteq active_connections
            /\ DOMAIN clients' \subseteq DOMAIN clients
            /\ DOMAIN connections' \subseteq DOMAIN connections
    ]_vars

\* The listener of c has failed while d is being served by a connected
\* adapter with a waiting listener.
C19_Witness ==
    \E c, d \in Conns :
        /\ c # d
        /\ lis[NewClient(c)] = "error"
        /\ ~gem[NewClient(c)].is_connected
        /\ Active(d)
        /\ gem[Table[d]].is_connected
        /\ lis[Table[d]] = "wait"

C22_AexitAtMostOnce ==
    [][\A a \in Adapters :
        a \in torn => CallsOn(calls', a, {"__aexit__"}) = {}
    ]_vars

\* ------------------------------------------------------------- C23
Established(c) ==
    [to |-> c, type |-> "connection_established", message |-> "connect_ok", src |-> 0]

\* C23: on a connection whose open succeeds while its client is there, the
\* step that creates the listener task also writes connection_established,
\* and nothing was written to the client before: until the open has
\* completed, no frame made from a response of the remote session and no
\* answer of the handler is written to it.
C23_EstablishedFirst ==
    [][\A c \in Conns :
        /\ pc[c] \in {"start", "connect"} =>
              \A i \in FramesTo(sent', c) :
                  /\ pc[c] = "connect"
                  /\ pc'[c] = "loop"
                  /\ sent'[i].src = 0
                  /\ sent'[i].type \in {"connection_established", "error"}
        /\ (Deliverable(c) /\ connect(c, TRUE)) =>
              /\ sent' = << Established(c) >>
              /\ lis[Table[c]] = "none"
              /\ lis'[Table[c]] = "wait"
    ]_vars

\* The listener of c has been started and c was told so, while the other
\* connection is still connecting.
C23_Witness ==
    \E c, d \in Conns :
        /\ c # d
        /\ sent = << Established(c) >>
        /\ lis[Table[c]] = "wait"
        /\ Active(c)
        /\ Connecting(d)

\* ------------------------------------------------------------- C24
\* C24: on an established connection the handler of websocket_server.py and
\* the handler of main_integrated.py do the same for every client frame and
\* every result of a backend send: the same frames to the client, the same
\* adapter and backend calls, the same continuation.
C24_BridgesEquivalent ==
    \A c \in Conns :
        /\ (pc[c] = "loop" /\ Registered(c) /\ Opened(c)) =>
              \A m \in ClientFrames : Dispatch(c, m) = handle_message(c, m)
        /\ (pc[c] \in {"send_audio", "send_text"} /\ Registered(c) /\ Opened(c)) =>
              \A ok \in BOOLEAN : after_send(c, ok) = after_send_integrated(c, ok)

\* An established connection of the integrated bridge whose handler has just
\* passed audio on to the remote session.
C24_Witness ==
    \E c \in Conns :
        /\ impl = "integrated"
        /\ pc[c] = "send_audio"
        /\ Registered(c)
        /\ Opened(c)
        /\ CallsOn(calls, Table[c], {"send_realtime_input"}) # {}

\* ------------------------------------------------------------- C25
\* C25 (as claimed): in VoiceAIWebSocketServer every key of clients is a
\* member of active_connections in every reachable state, so total_clients
\* never exceeds active_connections.
C25_ClientsWithinActive ==
    impl = "ws" =>
        /\ DOMAIN clients \subseteq active_connections
        /\ get_stats.total_clients <= get_stats.active_connections

\* The connections whose unregister_client is suspended in disconnect.
TearingDown == {c \in Conns : pc[c] = "aexit"}

\* C25 (amended): every key of clients is a member of active_connections or
\* a connection whose unregister_client is suspended in
\* GeminiLiveClient.disconnect: unregister_client discards the websocket
\* from active_connections before the await and deletes the clients entry
\* after it.  Such a connection is a key of clients and not a member of
\* active_connections, so total_clients exceeds active_connections by at
\* most the number of connections being torn down.
C25_ClientsWithinActiveOrTearingDown ==
    impl = "ws" =>
        /\ DOMAIN clients \subseteq active_connections \cup TearingDown
        /\ TearingDown \subseteq DOMAIN clients \ active_connections
        /\ get_stats.total_clients <=
              get_stats.active_connections + Cardinality(TearingDown)

\* One connection is being torn down while the other is Active: clients has
\* two keys and active_connections one member.
C25_Witness ==
    \E c, d \in Conns :
        /\ impl = "ws"
        /\ pc[c] = "aexit"
        /\ Active(d)
        /\ get_stats.total_clients = 2
        /\ get_stats.active_connections = 1

====
